---- MODULE Spec2Model ----
(***************************************************************************)
(* cube2movie: the CubeToMovie class (src/CubeToMovie.py) and the          *)
(* cube2movie wrapper (src/cube2movie.py).                                 *)
(*                                                                         *)
(* The process-wide state is matplotlib's interactive flag, the list of    *)
(* installed warning filters and plt.rcParams.  The object state is the    *)
(* CubeToMovie instance `self`.  Every method is an operator from a world  *)
(* (process state + object + raised exception) to a world; a world whose   *)
(* exc is not "none" carries a propagating exception and later statements  *)
(* of the same call leave it alone.                                        *)
(***************************************************************************)
EXTENDS Integers, Sequences, FiniteSets, TLC

VARIABLES
    interactive,   \* mpl.is_interactive()
    filters,       \* warnings.filters, most recent first
    rcParams,      \* contents of plt.rcParams: "user" or "movie"
    self,          \* the CubeToMovie instance, <<>> before construction
    exc,           \* exception raised by the last call, "none" if it returned
    enc,           \* what the movie writer has seen: invoked, frames, ticks, saved
    alloc,         \* number of matplotlib objects created so far
    pc,            \* position of the caller
    args,          \* arguments of the running cube2movie call, <<>> if none
    log,           \* methods called by cube2movie, in call order
    snap,          \* global state when the caller started
    calls          \* number of direct method calls made by the caller

vars == <<interactive, filters, rcParams, self, exc, enc, alloc, pc, args, log, snap, calls>>

----------------------------------------------------------------------------
(* Bounds *)

MaxFrames == 2      \* longest channel list a caller passes
MaxCalls  == 4      \* direct calls of pipeline methods per behaviour

----------------------------------------------------------------------------
(* Values *)

None   == <<>>                  \* Python None / attribute never assigned
Some(v) == <<v>>
IsNone(o) == Len(o) = 0
Val(o) == o[1]

Str(s)   == [isList |-> FALSE, names |-> <<s>>]     \* a str argument
List(ss) == [isList |-> TRUE,  names |-> ss]        \* a list-of-str argument

IgnWCS      == [action |-> "ignore",  category |-> "WCSWarning", message |-> ""]
IgnContour  == [action |-> "ignore",  category |-> "Warning",
                message |-> "No contour levels were found within the data range."]
DefaultWCS  == [action |-> "default", category |-> "WCSWarning", message |-> ""]

RECURSIVE Without(_, _)
Without(s, x) ==
    IF s = <<>> THEN <<>>
    ELSE IF Head(s) = x THEN Tail(s)
    ELSE <<Head(s)>> \o Without(Tail(s), x)

\* warnings.filterwarnings / warnings.simplefilter: the entry is moved or
\* inserted at the front of warnings.filters
add_filter(fs, item) == <<item>> \o Without(fs, item)

----------------------------------------------------------------------------
(* Worlds *)

World == [interactive |-> interactive, filters |-> filters, rcParams |-> rcParams,
          self |-> self, exc |-> exc, enc |-> enc, alloc |-> alloc]

Raise(w, e) == [w EXCEPT !.exc = e]
Ok(w) == w.exc = "none"

NoEnc == [invoked |-> FALSE, writer |-> "", frames |-> <<>>, ticks |-> 0,
          total |-> 0, saved |-> FALSE]

----------------------------------------------------------------------------
(* The data cube: what load_cube, len(), percentile() and header[] give *)

CType1 == "RA---SIN"
CType2 == "DEC--SIN"
BUnit  == "K"

CubeKinds == {"SpectralCube", "str", "int"}

\* load_cube: a SpectralCube is taken as is, a file name or HDU is read,
\* anything else is a TypeError
CanLoad(cube) == cube.kind \in {"SpectralCube", "str", "HDUList", "PrimaryHDU"}

----------------------------------------------------------------------------
(* CubeToMovie.__init__ *)

NewObject(cube) ==
    [ preview_movie  |-> FALSE,
      was_interactive |-> FALSE,
      is_interactive |-> FALSE,
      warningstatus  |-> [wcswarning |-> TRUE, contourwarning |-> TRUE],
      cube           |-> [n |-> cube.n, lo |-> cube.lo, hi |-> cube.hi],
      channels       |-> [i \in 1..cube.n |-> i - 1],
      fig            |-> None,
      ax             |-> None,
      xlabel         |-> "auto",
      ylabel         |-> "auto",
      vmin           |-> None,
      vmax           |-> None,
      contourlevels  |-> None,
      show_cbar      |-> TRUE,
      cbarlabel      |-> BUnit,
      repeat         |-> FALSE,
      writer         |-> "ffmpeg",
      mpl_settings   |-> None,
      map            |-> None,
      contour        |-> None,
      chanlabel      |-> None,
      cbar           |-> None,
      movie          |-> None ]

init(w, cube) ==
    IF ~CanLoad(cube) THEN Raise(w, "TypeError")
    ELSE [w EXCEPT !.self = Some(NewObject(cube))]

\* the instance of a world in which it exists
Obj(w) == Val(w.self)
SetAttr(w, f, v) == [w EXCEPT !.self = Some([Obj(w) EXCEPT ![f] = v])]

----------------------------------------------------------------------------
(* Environment: interactive mode, rcParams, warning filters *)

enable_interactive(w) ==
    IF ~Ok(w) THEN w
    ELSE SetAttr([w EXCEPT !.interactive = TRUE], "is_interactive", TRUE)

disable_interactive(w) ==
    IF ~Ok(w) THEN w
    ELSE SetAttr([w EXCEPT !.interactive = FALSE], "is_interactive", FALSE)

reset_interactive(w) ==
    IF ~Ok(w) THEN w
    ELSE SetAttr([w EXCEPT !.interactive = Obj(w).was_interactive],
                 "is_interactive", Obj(w).was_interactive)

adjust_interactive(w) ==
    IF ~Ok(w) THEN w
    ELSE LET w1 == SetAttr(w, "was_interactive", w.interactive)
         IN  IF Obj(w1).preview_movie THEN enable_interactive(w1)
             ELSE disable_interactive(w1)

\* self.mpl_settings = plt.rcParams binds the attribute to the rcParams object
\* itself ("ref"), which update() then changes in place
set_mpl_settings(w) ==
    IF ~Ok(w) THEN w
    ELSE [SetAttr(w, "mpl_settings", Some("ref")) EXCEPT !.rcParams = "movie"]

\* plt.rcParams = self.mpl_settings: the attribute is read (AttributeError if
\* it was never assigned) and what it refers to is the current rcParams object
restore_mpl_settings(w) ==
    IF ~Ok(w) THEN w
    ELSE IF IsNone(Obj(w).mpl_settings) THEN Raise(w, "AttributeError")
    ELSE [w EXCEPT !.rcParams = w.rcParams]

supress_wcswarnings(w) ==
    IF ~Ok(w) THEN w
    ELSE SetAttr([w EXCEPT !.filters = add_filter(w.filters, IgnWCS)],
                 "warningstatus", [Obj(w).warningstatus EXCEPT !.wcswarning = FALSE])

supress_contourwarnings(w) ==
    IF ~Ok(w) THEN w
    ELSE SetAttr([w EXCEPT !.filters = add_filter(w.filters, IgnContour)],
                 "warningstatus", [Obj(w).warningstatus EXCEPT !.contourwarning = FALSE])

\* CubeToMovie defines no method of this name: the attribute lookup fails
supress_OMPwarnings(w) ==
    IF ~Ok(w) THEN w ELSE Raise(w, "AttributeError")

\* `isinstance(type, (tuple,list))` tests the builtin `type`, never the argument
IsTupleOrList_type(types) == FALSE

\* one iteration of the loop of restore_warnings, t an element of types
restore_one(w, t) ==
    IF ~Ok(w) THEN w
    ELSE LET w1 == IF t = Str("wcswarning")
                   THEN \* simplefilter installs the filter, then the lookup
                        \* self.warningstatus['wcswarning': True] (a slice key) fails
                        Raise([w EXCEPT !.filters = add_filter(w.filters, DefaultWCS)],
                              "TypeError")
                   ELSE w
         IN  IF Ok(w1) /\ t = Str("contourwarning")
             THEN \* warnings.simplefilter has no `message` parameter
                  Raise(w1, "TypeError")
             ELSE w1

RECURSIVE restore_loop(_, _)
restore_loop(w, ts) ==
    IF ts = <<>> THEN w ELSE restore_loop(restore_one(w, Head(ts)), Tail(ts))

restore_warnings(w, types) ==
    IF ~Ok(w) THEN w
    ELSE LET t1 == IF types = Str("all")
                   THEN List(<<"wcswarning", "contourwarning">>) ELSE types
             t2 == IF ~IsTupleOrList_type(t1) THEN <<t1>>
                   ELSE [i \in 1..Len(t1.names) |-> Str(t1.names[i])]
         IN  restore_loop(w, t2)

prepare_environment(w) ==
    set_mpl_settings(adjust_interactive(supress_OMPwarnings(
        supress_contourwarnings(supress_wcswarnings(w)))))

restore_environment(w) ==
    restore_warnings(restore_mpl_settings(reset_interactive(w)), Str("all"))

----------------------------------------------------------------------------
(* Value range *)

RECURSIVE Pow10(_)
Pow10(k) == IF k <= 0 THEN 1 ELSE 10 * Pow10(k - 1)

Abs(x) == IF x < 0 THEN -x ELSE x

\* floor(log10(|x|)) for an integer x # 0
RECURSIVE FloorLog10(_)
FloorLog10(x) == IF Abs(x) < 10 THEN 0 ELSE 1 + FloorLog10(Abs(x) \div 10)

\* round(x, -k), k > 0: to the nearest multiple of 10^k, ties to the even multiple
RoundToMultiple(x, m) ==
    LET q == x \div m
        r == x % m
    IN  IF 2 * r < m THEN q * m
        ELSE IF 2 * r > m THEN (q + 1) * m
        ELSE IF q % 2 = 0 THEN q * m ELSE (q + 1) * m

\* round_to_4 of set_range on integer data; log10(0) is -inf and int(-inf)
\* raises OverflowError, reported here as None
round_to_4(x) ==
    IF x = 0 THEN None
    ELSE LET ndigits == 3 - FloorLog10(x)
         IN  IF ndigits >= 0 THEN Some(x)
             ELSE Some(RoundToMultiple(x, Pow10(-ndigits)))

set_range(w) ==
    IF ~Ok(w) THEN w
    ELSE LET lo == round_to_4(Obj(w).cube.lo)
             w1 == IF ~IsNone(Obj(w).vmin) THEN w
                   ELSE IF IsNone(lo) THEN Raise(w, "OverflowError")
                   ELSE SetAttr(w, "vmin", lo)
             hi == round_to_4(Obj(w).cube.hi)
         IN  IF ~Ok(w1) \/ ~IsNone(Obj(w1).vmax) THEN w1
             ELSE IF IsNone(hi) THEN Raise(w1, "OverflowError")
             ELSE SetAttr(w1, "vmax", hi)

----------------------------------------------------------------------------
(* Channel selection *)

select_channels(w, channels) ==
    IF ~Ok(w) THEN w ELSE SetAttr(w, "channels", channels)

\* cube[channel,:,:] and spectral_axis[channel]
ValidIndex(cube, channel) == channel >= 0 /\ channel < cube.n

----------------------------------------------------------------------------
(* The scene *)

New(w) == w.alloc + 1
Allocate(w) == [w EXCEPT !.alloc = w.alloc + 1]

create_figure(w, channel) ==
    IF ~Ok(w) THEN w
    ELSE LET w1 == SetAttr(Allocate(w), "fig", Some(New(w)))
         IN  SetAttr(Allocate(w1), "ax",
                     Some([id |-> New(w1), xlabel |-> "", ylabel |-> "",
                           collections |-> {}]))

plot_map(w, channel) ==
    IF ~Ok(w) THEN w
    ELSE IF IsNone(Obj(w).ax) THEN Raise(w, "AttributeError")
    ELSE IF ~ValidIndex(Obj(w).cube, channel) THEN Raise(w, "IndexError")
    ELSE SetAttr(Allocate(w), "map",
                 Some([id |-> New(w), array |-> channel,
                       vmin |-> Obj(w).vmin, vmax |-> Obj(w).vmax]))

\* `x is not []` compares the identity of x with a list created for the
\* comparison: it is true of every x
IsNotEmptyListLiteral(x) == TRUE

\* ax.contour: levels that are not increasing are refused; any other level
\* argument, None and the empty list included, gives a contour set
ContourLevelsOk(levels) ==
    IsNone(levels) \/ \A i \in 1..(Len(Val(levels)) - 1) : Val(levels)[i] < Val(levels)[i + 1]

ax_contour(w, channel) ==
    IF IsNone(Obj(w).ax) THEN Raise(w, "AttributeError")
    ELSE IF ~ValidIndex(Obj(w).cube, channel) THEN Raise(w, "IndexError")
    ELSE IF ~ContourLevelsOk(Obj(w).contourlevels) THEN Raise(w, "ValueError")
    ELSE LET w1 == SetAttr(Allocate(w), "contour",
                           Some([id |-> New(w), array |-> channel,
                                 levels |-> Obj(w).contourlevels]))
         IN  SetAttr(w1, "ax", Some([Val(Obj(w1).ax) EXCEPT
                                       !.collections = @ \cup {New(w)}]))

\* the removal loop left out
remove_nothing(w) == w

\* for c in self.contour.collections: c.remove() takes what the current
\* contour set drew off the axes
remove_collections(w) ==
    SetAttr(w, "ax", Some([Val(Obj(w).ax) EXCEPT
                             !.collections = @ \ {Val(Obj(w).contour).id}]))

plot_contour(w, channel) ==
    IF ~Ok(w) THEN w
    ELSE IF IsNotEmptyListLiteral(Obj(w).contourlevels) THEN ax_contour(w, channel)
    ELSE w

channel_overlay(w, channel) ==
    IF ~Ok(w) THEN w
    ELSE IF ~ValidIndex(Obj(w).cube, channel) THEN Raise(w, "IndexError")
    ELSE IF IsNone(Obj(w).ax) THEN Raise(w, "AttributeError")
    ELSE SetAttr(Allocate(w), "chanlabel", Some([id |-> New(w), text |-> None]))

set_axis_labels(w) ==
    IF ~Ok(w) THEN w
    ELSE LET w1 == IF Obj(w).xlabel = "auto" THEN SetAttr(w, "xlabel", CType1) ELSE w
             w2 == IF Obj(w1).ylabel = "auto" THEN SetAttr(w1, "ylabel", CType2) ELSE w1
         IN  IF IsNone(Obj(w2).ax) THEN Raise(w2, "AttributeError")
             ELSE SetAttr(w2, "ax", Some([Val(Obj(w2).ax) EXCEPT
                                            !.xlabel = Obj(w2).xlabel,
                                            !.ylabel = Obj(w2).xlabel]))

show_colorbar(w) ==
    IF ~Ok(w) THEN w
    ELSE IF ~Obj(w).show_cbar THEN w
    ELSE IF IsNone(Obj(w).fig) \/ IsNone(Obj(w).map) THEN Raise(w, "AttributeError")
    ELSE LET w1 == IF Obj(w).cbarlabel = "auto" THEN SetAttr(w, "cbarlabel", BUnit) ELSE w
             bar == [id |-> New(w1), mappable |-> Val(Obj(w1).map).id,
                     label |-> Obj(w1).cbarlabel, lines |-> None]
             w2 == SetAttr(Allocate(w1), "cbar", Some(bar))
         IN  IF IsNone(Obj(w2).contour) THEN Raise(w2, "AttributeError")
             ELSE SetAttr(w2, "cbar", Some([bar EXCEPT !.lines = Some(Val(Obj(w2).contour).id)]))

set_up_plot(w) ==
    show_colorbar(set_axis_labels(channel_overlay(plot_contour(plot_map(
        create_figure(w, 0), 0), 0), 0)))

----------------------------------------------------------------------------
(* Frame update *)

plot_channel(w, channel) ==
    IF ~Ok(w) THEN w
    ELSE IF IsNone(Obj(w).map) THEN Raise(w, "AttributeError")
    ELSE IF ~ValidIndex(Obj(w).cube, channel) THEN Raise(w, "IndexError")
    ELSE LET w1 == SetAttr(w, "map", Some([Val(Obj(w).map) EXCEPT !.array = channel]))
             w2 == IF IsNotEmptyListLiteral(Obj(w1).contourlevels)
                   THEN IF IsNone(Obj(w1).contour) THEN Raise(w1, "AttributeError")
                        ELSE ax_contour(remove_collections(w1), channel)
                   ELSE w1
         IN  IF ~Ok(w2) THEN w2
             ELSE IF IsNone(Obj(w2).chanlabel) THEN Raise(w2, "AttributeError")
             ELSE SetAttr(w2, "chanlabel",
                          Some([Val(Obj(w2).chanlabel) EXCEPT !.text = Some(channel)]))

----------------------------------------------------------------------------
(* Animation and encoding *)

\* animation.FuncAnimation(fig, func=plot_channel, frames=channels, repeat=repeat):
\* the frames are the list object bound to self.channels at this moment
animate(w) ==
    IF ~Ok(w) THEN w
    ELSE IF IsNone(Obj(w).fig) THEN Raise(w, "AttributeError")
    ELSE SetAttr(w, "movie",
                 Some([fig |-> Val(Obj(w).fig), frames |-> Obj(w).channels,
                       repeat |-> Obj(w).repeat]))

\* the frames movie.save() asks for: the frame list once, whatever repeat says
saved_frame_seq(movie) == SubSeq(movie.frames, 1, Len(movie.frames))

\* update_progressbar without its bar.update()
update_progressbar_silent(w) == w

\* update_progressbar: one bar.update() per call
update_progressbar(w) == [w EXCEPT !.enc.ticks = w.enc.ticks + 1]

\* the loop of movie.save(): draw the frame with plot_channel, call the
\* progress callback, hand the drawn frame to the writer; failAt is the frame
\* at which the writer process fails (0: it never does)
RECURSIVE save_frames(_, _, _)
save_frames(w, frames, failAt) ==
    IF ~Ok(w) \/ frames = <<>> THEN w
    ELSE LET w1 == plot_channel(w, Head(frames))
             w2 == IF Ok(w1) THEN update_progressbar(w1) ELSE w1
             w3 == IF ~Ok(w2) THEN w2
                   ELSE IF failAt = Len(w2.enc.frames) + 1 THEN Raise(w2, "EncoderError")
                   ELSE [w2 EXCEPT !.enc.frames = Append(w2.enc.frames, Head(frames))]
         IN  save_frames(w3, Tail(frames), failAt)

save_movie(w, failAt) ==
    IF ~Ok(w) THEN w
    ELSE IF IsNone(Obj(w).movie) THEN Raise(w, "AttributeError")
    ELSE LET w1 == [w EXCEPT !.enc = [invoked |-> TRUE, writer |-> Obj(w).writer,
                                      frames |-> <<>>, ticks |-> 0,
                                      total |-> Len(Obj(w).channels), saved |-> FALSE]]
             w2 == save_frames(w1, saved_frame_seq(Val(Obj(w1).movie)), failAt)
         IN  IF Ok(w2) THEN [w2 EXCEPT !.enc.saved = TRUE] ELSE w2

----------------------------------------------------------------------------
(* cube2movie *)

\* the attribute assignments between prepare_environment and select_channels
configure(w, a) ==
    IF ~Ok(w) THEN w
    ELSE [w EXCEPT !.self = Some([Obj(w) EXCEPT
            !.vmin = a.vmin, !.vmax = a.vmax,
            !.xlabel = a.xlabel, !.ylabel = a.ylabel,
            !.show_cbar = a.show_cbar, !.cbarlabel = a.cbarlabel,
            !.contourlevels = Some(a.contourlevels),
            !.preview_movie = a.preview_movie, !.repeat = a.repeat])]

Statements == <<"CubeToMovie", "prepare_environment", "configure", "select_channels",
                "set_range", "set_up_plot", "animate", "save_movie",
                "restore_environment">>

\* the statement of cube2movie named st, run in world w with arguments a
Exec(st, w, a, failAt) ==
    CASE st = "CubeToMovie"         -> init(w, a.cube)
      [] st = "prepare_environment" -> prepare_environment(w)
      [] st = "configure"           -> configure(w, a)
      [] st = "select_channels"     -> select_channels(w, a.channels)
      [] st = "set_range"           -> set_range(w)
      [] st = "set_up_plot"         -> set_up_plot(w)
      [] st = "animate"             -> animate(w)
      [] st = "save_movie"          -> save_movie(w, failAt)
      [] st = "restore_environment" -> restore_environment(w)

Pos(st) == CHOOSE i \in 1..Len(Statements) : Statements[i] = st

\* where control is after statement st ran and left world w
After(st, w) ==
    IF ~Ok(w) THEN "raised"
    ELSE IF Pos(st) = Len(Statements) THEN "returned"
    ELSE Statements[Pos(st) + 1]

----------------------------------------------------------------------------
(* Inputs *)

Interactivity == BOOLEAN

\* the filters a process may have installed before: each of the two kinds of
\* warning ignored or not
InitFilters == { <<>>, <<IgnWCS>>, <<IgnContour>>,
                 <<IgnWCS, IgnContour>>, <<IgnContour, IgnWCS>> }

\* cubes of one and of two channels
CubeSizes == {1, 2}

\* channel numbers a caller asks for: the channels of the largest cube and
\* the first number past them
Indices == UNION { 0..n : n \in CubeSizes }

ChannelLists == UNION { [1..k -> Indices] : k \in 0..MaxFrames }

Cubes == [kind : CubeKinds, n : CubeSizes, lo : {1}, hi : {5}]

ContourArgs == { <<>>, <<3>>, <<3, 2>> }

Writers == {"ffmpeg", "imagemagick"}

WarningArgs == { Str("all"), Str("wcswarning"), Str("contourwarning"),
                 List(<<"wcswarning">>) }

CallArgs == [cube : Cubes, channels : ChannelLists, contourlevels : ContourArgs,
             preview_movie : BOOLEAN, repeat : BOOLEAN,
             vmin : {None}, vmax : {None}, xlabel : {"auto"}, ylabel : {"auto"},
             show_cbar : {TRUE}, cbarlabel : {"auto"}]

ScriptArgs == [cube : {c \in Cubes : c.kind = "SpectralCube" /\ c.n = 2},
               channels : {<<>>}, contourlevels : {<<>>, <<3>>},
               preview_movie : {FALSE}, repeat : BOOLEAN,
               vmin : {None}, vmax : {None}, xlabel : {"auto"}, ylabel : {"auto"},
               show_cbar : {TRUE}, cbarlabel : {"auto"}]

----------------------------------------------------------------------------
(* State machine *)

Globals == [interactive |-> interactive, filters |-> filters]

Commit(w) ==
    /\ interactive' = w.interactive
    /\ filters' = w.filters
    /\ rcParams' = w.rcParams
    /\ self' = w.self
    /\ exc' = w.exc
    /\ enc' = w.enc
    /\ alloc' = w.alloc

\* the world in which a new call starts: the last exception has been dealt with
Fresh == [World EXCEPT !.exc = "none"]

InitGlobals ==
    /\ interactive \in Interactivity
    /\ filters \in InitFilters
    /\ rcParams = "user"
    /\ snap = Globals
    /\ exc = "none"
    /\ enc = NoEnc
    /\ alloc = 0
    /\ calls = 0
    /\ log = <<>>

(* A process that calls cube2movie once *)

Init ==
    /\ InitGlobals
    /\ self = None
    /\ args = None
    /\ pc = "idle"

Call(a) ==
    /\ pc = "idle"
    /\ args' = Some(a)
    /\ pc' = Statements[1]
    /\ UNCHANGED <<interactive, filters, rcParams, self, exc, enc, alloc, log, snap, calls>>

Statement(failAt) ==
    /\ pc \in {Statements[i] : i \in 1..Len(Statements)}
    /\ LET w == Exec(pc, World, Val(args), failAt)
       IN  /\ Commit(w)
           /\ pc' = After(pc, w)
    /\ log' = Append(log, pc)
    /\ snap' = IF pc = "prepare_environment" THEN Globals ELSE snap
    /\ UNCHANGED <<args, calls>>

Next ==
    \/ \E a \in CallArgs : Call(a)
    \/ \E failAt \in 0..MaxFrames : Statement(failAt)

Spec == Init /\ [][Next]_vars

(* A process that uses the environment methods of a CubeToMovie object *)

DefaultCube == [kind |-> "SpectralCube", n |-> 1, lo |-> 1, hi |-> 5]

LastTwo(s) == IF Len(s) <= 2 THEN s ELSE SubSeq(s, Len(s) - 1, Len(s))

EnvInit ==
    /\ InitGlobals
    /\ \E p \in BOOLEAN : self = Some([NewObject(DefaultCube) EXCEPT !.preview_movie = p])
    /\ args = None
    /\ pc = "script"

\* a direct call that leaves world w; log keeps the names of the last two calls
EnvCall(name, w) ==
    /\ pc = "script"
    /\ Commit(w)
    /\ log' = LastTwo(Append(log, name))
    /\ UNCHANGED <<pc, args, calls>>

EnableInteractive  == EnvCall("enable_interactive", enable_interactive(Fresh)) /\ UNCHANGED snap
DisableInteractive == EnvCall("disable_interactive", disable_interactive(Fresh)) /\ UNCHANGED snap
ResetInteractive   == EnvCall("reset_interactive", reset_interactive(Fresh)) /\ UNCHANGED snap
AdjustInteractive  == EnvCall("adjust_interactive", adjust_interactive(Fresh)) /\ UNCHANGED snap
SetMplSettings     == EnvCall("set_mpl_settings", set_mpl_settings(Fresh)) /\ UNCHANGED snap
RestoreMplSettings == EnvCall("restore_mpl_settings", restore_mpl_settings(Fresh)) /\ UNCHANGED snap
SupressWcswarnings == EnvCall("supress_wcswarnings", supress_wcswarnings(Fresh)) /\ UNCHANGED snap
SupressContourwarnings ==
    EnvCall("supress_contourwarnings", supress_contourwarnings(Fresh)) /\ UNCHANGED snap
RestoreWarnings(types) ==
    EnvCall("restore_warnings", restore_warnings(Fresh, types)) /\ UNCHANGED snap
PrepareEnvironment ==
    EnvCall("prepare_environment", prepare_environment(Fresh)) /\ snap' = Globals
RestoreEnvironment ==
    EnvCall("restore_environment", restore_environment(Fresh)) /\ UNCHANGED snap

EnvNext ==
    \/ EnableInteractive
    \/ DisableInteractive
    \/ ResetInteractive
    \/ AdjustInteractive
    \/ SetMplSettings
    \/ RestoreMplSettings
    \/ SupressWcswarnings
    \/ SupressContourwarnings
    \/ \E types \in WarningArgs : RestoreWarnings(types)
    \/ PrepareEnvironment
    \/ RestoreEnvironment

EnvSpec == EnvInit /\ [][EnvNext]_vars

(* A process that drives the pipeline methods of a configured object *)

PipelineInit ==
    /\ interactive = FALSE
    /\ filters = <<>>
    /\ rcParams = "user"
    /\ snap = Globals
    /\ exc = "none"
    /\ enc = NoEnc
    /\ alloc = 0
    /\ calls = 0
    /\ log = <<>>
    /\ args = None
    /\ pc = "script"
    /\ \E a \in ScriptArgs, wr \in Writers :
          self = Some([Obj(configure(init([self |-> None, exc |-> "none"], a.cube), a))
                         EXCEPT !.writer = wr])

PipelineCall(w) ==
    /\ pc = "script"
    /\ calls < MaxCalls
    /\ Commit(w)
    /\ calls' = calls + 1
    /\ UNCHANGED <<pc, args, log, snap>>

SelectChannels(channels) == PipelineCall(select_channels(Fresh, channels))
SetRange                 == PipelineCall(set_range(Fresh))
SetUpPlot                == PipelineCall(set_up_plot(Fresh))
PlotChannel(channel)     == PipelineCall(plot_channel(Fresh, channel))
Animate                  == PipelineCall(animate(Fresh))
SaveMovie(failAt)        == PipelineCall(save_movie(Fresh, failAt))

PipelineNext ==
    \/ \E channels \in ChannelLists : SelectChannels(channels)
    \/ SetRange
    \/ SetUpPlot
    \/ \E channel \in Indices : PlotChannel(channel)
    \/ Animate
    \/ \E failAt \in 0..MaxFrames : SaveMovie(failAt)

PipelineSpec == PipelineInit /\ [][PipelineNext]_vars

(* A process that builds and updates the scene of an object whose labels,
   value range and cube statistics vary *)

\* percentiles of the cube: small values, a zero, values of more than four digits
SceneCubes == [kind : {"SpectralCube"}, n : {2}, lo : {0, 1, -123456}, hi : {5, 123450}]

SceneArgs == [cube : SceneCubes, channels : {<<>>}, contourlevels : {<<>>, <<3>>},
              preview_movie : {FALSE}, repeat : {FALSE},
              vmin : {None, Some(2)}, vmax : {None, Some(9)},
              xlabel : {"auto", "x offset"}, ylabel : {"auto", "y offset"},
              show_cbar : {TRUE}, cbarlabel : {"auto"}]

SceneInit ==
    /\ interactive = FALSE
    /\ filters = <<>>
    /\ rcParams = "user"
    /\ snap = Globals
    /\ exc = "none"
    /\ enc = NoEnc
    /\ alloc = 0
    /\ calls = 0
    /\ log = <<>>
    /\ pc = "script"
    /\ \E a \in SceneArgs :
          /\ args = Some(a)
          /\ self = Some(Obj(configure(init([self |-> None, exc |-> "none"], a.cube), a)))

SceneNext ==
    \/ SetRange
    \/ SetUpPlot
    \/ \E channel \in Indices : PlotChannel(channel)
    \/ Animate
    \/ \E failAt \in 0..MaxFrames : SaveMovie(failAt)

SceneSpec == SceneInit /\ [][SceneNext]_vars

----------------------------------------------------------------------------
(* Properties *)

Terminated == pc \in {"returned", "raised"}

Last(s) == s[Len(s)]

Count(s, x) == Cardinality({i \in 1..Len(s) : s[i] = x})

AllChannels(cube) == [i \in 1..cube.n |-> i - 1]

HasInvalidIndex(channels, cube) ==
    \E i \in 1..Len(channels) : ~ValidIndex(cube, channels[i])

IsPrefix(s, t) == Len(s) <= Len(t) /\ SubSeq(t, 1, Len(s)) = s

SessionStages == <<"prepare_environment", "set_range", "set_up_plot", "animate",
                   "save_movie", "restore_environment">>

IsStage(name) == \E i \in 1..Len(SessionStages) : SessionStages[i] = name

\* the cube can be loaded and every requested channel is a slice of it
ValidCall ==
    /\ ~IsNone(args)
    /\ CanLoad(Val(args).cube)
    /\ ~HasInvalidIndex(Val(args).channels, Val(args).cube)
    /\ ContourLevelsOk(Some(Val(args).contourlevels))

\* C1: a cube2movie call with a valid cube and configuration and a working
\* encoder ends by returning, after running prepare_environment, set_range,
\* set_up_plot, animate, save_movie and restore_environment once each in this
\* order, the movie saved and restore_environment the last thing done.
C1_StagesInOrder ==
    (Terminated /\ ValidCall /\ exc # "EncoderError") =>
        /\ pc = "returned"
        /\ SelectSeq(log, IsStage) = SessionStages
        /\ enc.saved
        /\ Last(log) = "restore_environment"

\* C2: once prepare_environment has started, a cube2movie call that has ended,
\* normally or by an exception, has run restore_environment exactly once, as
\* its last action.
C2_RestoreAlwaysLast ==
    (Terminated /\ Count(log, "prepare_environment") > 0) =>
        /\ Count(log, "restore_environment") = 1
        /\ Last(log) = "restore_environment"

\* C3: prepare_environment completes without error, and after
\* prepare_environment directly followed by restore_environment no error was
\* raised and the interactive mode and the warning filters are what they were
\* before prepare_environment.
C3_GuardRoundTrip ==
    /\ (log # <<>> /\ Last(log) = "prepare_environment") => exc = "none"
    /\ log = <<"prepare_environment", "restore_environment">> =>
          (exc = "none" /\ Globals = snap)

\* C4: select_channels with an empty list leaves all channels of the cube, in
\* ascending order, as the frame sequence; a non-empty list is taken as given;
\* animate arms the animation with that sequence.
C4_EmptyMeansAll ==
    [][ /\ \A ch \in ChannelLists :
              SelectChannels(ch) =>
                  Val(self').channels =
                      IF ch = <<>> THEN AllChannels(Val(self).cube) ELSE ch
        /\ (Animate /\ exc' = "none") =>
              Val(Val(self').movie).frames = Val(self).channels ]_vars

\* C5: a channel list with an index that is no slice of the cube is refused
\* with an error when it is selected, and while such a list is selected
\* set_up_plot builds no scene and no frame is rendered or encoded.
C5_InvalidIndexRefusedEarly ==
    [][ /\ \A ch \in ChannelLists :
              (SelectChannels(ch) /\ HasInvalidIndex(ch, Val(self).cube)) =>
                  (exc' # "none" /\ Val(self').channels = Val(self).channels)
        /\ (SetUpPlot /\ HasInvalidIndex(Val(self).channels, Val(self).cube)) =>
              IsNone(Val(self').fig)
        /\ \A f \in 0..MaxFrames :
              (SaveMovie(f) /\ HasInvalidIndex(Val(self).channels, Val(self).cube)) =>
                  (enc'.frames = <<>> /\ enc'.ticks = 0) ]_vars

\* C6: with an empty list of contour levels there is never a contour artist,
\* the colorbar refers to none, and no call fails for the lack of one.
C6_NoContourWhenDisabled ==
    Val(self).contourlevels = Some(<<>>) =>
        /\ IsNone(Val(self).contour)
        /\ ~IsNone(Val(self).cbar) => IsNone(Val(Val(self).cbar).lines)

\* C7: once cube2movie has called prepare_environment, interactive mode is on
\* exactly if preview_movie was passed as True, and was_interactive holds the
\* mode that was in force before the call.
C7_ModeFollowsPreview ==
    Count(log, "prepare_environment") > 0 =>
        /\ interactive = Val(args).preview_movie
        /\ Val(self).was_interactive = snap.interactive

\* C8: save_movie with a writer other than ffmpeg raises an error without
\* starting the writer and without drawing or writing a frame.
C8_UnsupportedWriterFailsFast ==
    [][ \A f \in 0..MaxFrames :
            (SaveMovie(f) /\ Val(self).writer # "ffmpeg") =>
                /\ exc' # "none"
                /\ ~enc'.invoked
                /\ enc'.frames = <<>>
                /\ Val(self').map = Val(self).map ]_vars

\* C9: animate arms the animation with the selected channel list; save_movie
\* hands the writer the armed frames in their order, never one twice, skipped
\* or out of order, whatever repeat is; the progress bar is ticked once per
\* drawn frame, and when save_movie returns every armed frame was written and
\* the ticks are as many as the frames.
C9_FramesInOrderOnce ==
    [][ /\ (Animate /\ exc' = "none") =>
              /\ Val(Val(self').movie).frames = Val(self).channels
              /\ Val(Val(self').movie).repeat = Val(self).repeat
        /\ \A f \in 0..MaxFrames :
              (SaveMovie(f) /\ ~IsNone(Val(self).movie)) =>
                  /\ IsPrefix(enc'.frames, Val(Val(self).movie).frames)
                  /\ enc'.ticks \in {Len(enc'.frames), Len(enc'.frames) + 1}
                  /\ exc' = "none" =>
                        /\ enc'.frames = Val(Val(self).movie).frames
                        /\ enc'.ticks = Len(enc'.frames)
                        /\ enc'.saved ]_vars

\* a movie of two different frames, not in ascending order, armed with
\* repeat on, has been saved
C9_Witness ==
    /\ pc = "script"
    /\ enc.saved
    /\ enc.frames = <<1, 0>>
    /\ enc.ticks = 2
    /\ ~IsNone(Val(self).movie)
    /\ Val(Val(self).movie).repeat

\* C10: restore_warnings for a kind of warning that was not suppressed (its
\* warningstatus is still True) returns without error and leaves
\* warningstatus and the installed filters as they were.
C10_RestoreUnsuppressedIsNoOp ==
    [][ /\ (RestoreWarnings(Str("wcswarning")) /\ Val(self).warningstatus.wcswarning) =>
              /\ exc' = "none"
              /\ filters' = filters
              /\ Val(self').warningstatus = Val(self).warningstatus
        /\ (RestoreWarnings(Str("contourwarning"))
               /\ Val(self).warningstatus.contourwarning) =>
              /\ exc' = "none"
              /\ filters' = filters
              /\ Val(self').warningstatus = Val(self).warningstatus ]_vars

\* the attributes the caller assigned before the first method call
Given == Val(args)

\* v is x to four significant figures (x itself when x is 0)
IsRoundedTo4(v, x) ==
    IF x = 0 THEN v = 0
    ELSE /\ 2 * Abs(v - x) <= Pow10(FloorLog10(x) - 3)
         /\ v % Pow10(FloorLog10(x) - 3) = 0

\* C11: once the scene is built the horizontal axis is labelled with the
\* caller's xlabel, or with the cube's ctype1 when that is 'auto', and the
\* vertical axis with the caller's ylabel, or with ctype2 when that is 'auto'.
C11_AxisLabelsIndependent ==
    (~IsNone(Val(self).ax) /\ Val(Val(self).ax).xlabel # "") =>
        /\ Val(Val(self).ax).xlabel =
              (IF Given.xlabel = "auto" THEN CType1 ELSE Given.xlabel)
        /\ Val(Val(self).ax).ylabel =
              (IF Given.ylabel = "auto" THEN CType2 ELSE Given.ylabel)

\* C12: set_range leaves a bound the caller gave as it is and sets each bound
\* that is None to its percentile at four significant figures, whether or
\* not the other bound is given; no call of any method changes a bound that
\* is set, so a bound is computed at most once and neither set_up_plot, a
\* frame update nor save_movie touches vmin or vmax.
C12_RangeResolvedOnce ==
    [][ /\ SetRange =>
              /\ exc' = "none"
              /\ ~IsNone(Val(self').vmin) /\ ~IsNone(Val(self').vmax)
              /\ IsNone(Val(self).vmin) =>
                    IsRoundedTo4(Val(Val(self').vmin), Val(self).cube.lo)
              /\ IsNone(Val(self).vmax) =>
                    IsRoundedTo4(Val(Val(self').vmax), Val(self).cube.hi)
        /\ ~IsNone(Val(self).vmin) => Val(self').vmin = Val(self).vmin
        /\ ~IsNone(Val(self).vmax) => Val(self').vmax = Val(self).vmax
        /\ ~SetRange => (Val(self').vmin = Val(self).vmin /\ Val(self').vmax = Val(self).vmax)
      ]_vars

\* what a frame update must leave alone: figure, axis and its labels,
\* colorbar, and which objects the image and the text are
SameScene(o, n) ==
    /\ n.fig = o.fig
    /\ n.cbar = o.cbar
    /\ Val(n.ax).id = Val(o.ax).id
    /\ Val(n.ax).xlabel = Val(o.ax).xlabel
    /\ Val(n.ax).ylabel = Val(o.ax).ylabel
    /\ Val(n.map).id = Val(o.map).id
    /\ Val(n.chanlabel).id = Val(o.chanlabel).id

\* the contour set of n is an object that did not exist in o, and what the
\* contour set of o drew is no longer on the axes
ContourReplaced(o, n) ==
    /\ Val(n.contour).id # Val(o.contour).id
    /\ Val(n.contour).id \notin Val(o.ax).collections
    /\ Val(n.contour).id \in Val(n.ax).collections
    /\ Val(o.contour).id \notin Val(n.ax).collections

SceneBuilt(o) == ~IsNone(o.map) /\ ~IsNone(o.contour) /\ ~IsNone(o.chanlabel)

ContoursEnabled(o) == o.contourlevels # Some(<<>>)

\* C13: a plot_channel call on a built scene, direct or from save_movie,
\* keeps the image and the text artist the same objects and leaves figure,
\* axis and colorbar as they were; the image shows the channel and the text
\* names it; with contour levels given, the contour artist afterwards is a
\* new object and the previous one has been taken off the axes.
C13_ArtistsStableContourReplaced ==
    [][ /\ \A c \in Indices :
              (PlotChannel(c) /\ SceneBuilt(Val(self))) =>
                  /\ SameScene(Val(self), Val(self'))
                  /\ exc' = "none" =>
                        /\ Val(Val(self').map).array = c
                        /\ Val(Val(self').chanlabel).text = Some(c)
                        /\ ContoursEnabled(Val(self)) =>
                              ContourReplaced(Val(self), Val(self'))
        /\ \A f \in 0..MaxFrames :
              (SaveMovie(f) /\ SceneBuilt(Val(self))) =>
                  /\ SameScene(Val(self), Val(self'))
                  /\ (enc'.ticks > 0 /\ ContoursEnabled(Val(self))) =>
                        ContourReplaced(Val(self), Val(self')) ]_vars

\* two frame updates were made on a scene with contour levels: the image and
\* the text are the objects set_up_plot made, the contour set is the third one
C13_Witness ==
    /\ pc = "script"
    /\ exc = "none"
    /\ ~enc.invoked
    /\ SceneBuilt(Val(self))
    /\ Val(self).contourlevels = Some(<<3>>)
    /\ Val(Val(self).map).id + 1 = Val(Val(self).contour).id - 4
    /\ Val(Val(self).map).array = 1
    /\ Val(Val(self).chanlabel).text = Some(1)
    /\ Val(Val(self).ax).collections = {Val(Val(self).contour).id}

====
